---- MODULE Spec2Model ----
(***************************************************************************)
(* Model of TildeSubs (src/maestro_util.py): a stack of dicts and the      *)
(* ~{name} substitution over it.  A Python str is modelled as a sequence   *)
(* of one-character strings, a dict as a function whose domain is the set  *)
(* of its keys, self.stack as a sequence of dicts (last = innermost).      *)
(* Positions are 1-based; a match [start, end) keeps Python's half-open    *)
(* convention, so it covers val[start] .. val[end-1].                      *)
(***************************************************************************)
EXTENDS Integers, Sequences, FiniteSets, TLC

VARIABLES stack, ret, held

vars == <<stack, ret, held>>

----------------------------------------------------------------------------
(* Bounds and input sets *)

MaxDepth == 2
MaxPieces == 4

a == <<"a">>
b == <<"b">>

Ids == {a, b}

Tok(id) == <<"~", "{">> \o id \o <<"}">>

Vals == {<< >>, <<"1">>, Tok(b)}

Frames == UNION {[K -> Vals] : K \in SUBSET Ids}

Texts == {Tok(a), Tok(b), <<"x">> \o Tok(a) \o Tok(b) \o <<"y">>,
          <<"p">> \o Tok(a) \o <<"s">>, <<"~", "{", "a">>}

Pieces == {<<"x">>, <<"~", "{">>, <<"{">>, <<"}">>, <<"~", "{", "a">>,
           Tok(a), Tok(b)}

RECURSIVE Concat(_)
Concat(ps) == IF ps = << >> THEN << >> ELSE Head(ps) \o Concat(Tail(ps))

ScanTexts == {Concat(ps) : ps \in UNION {[1..n -> Pieces] : n \in 0..MaxPieces}}

EmptyDict == [k \in {} |-> << >>]

ScanStacks == {<< EmptyDict >>,
               << a :> <<"1">> >>,
               << a :> << >> >>,
               << a :> Tok(b) @@ b :> <<"X">> >>,
               << a :> <<"1">> @@ b :> <<"1">>, b :> << >> >>,
               << a :> Tok(a) >>,
               << a :> Tok(b) @@ b :> Tok(a) >>}

----------------------------------------------------------------------------
(* The token regex  ~\{[^~{}]+\}  and re.finditer *)

IsIdChar(c) == c \notin {"~", "{", "}"}

RECURSIVE RunEnd(_, _)
RunEnd(val, k) ==
    IF k <= Len(val) /\ IsIdChar(val[k]) THEN RunEnd(val, k + 1) ELSE k

(* variant: the identifier may be empty, as with  ~\{[^~{}]*\} *)
MatchEndEmptyId(val, i) ==
    IF i + 1 <= Len(val) /\ val[i] = "~" /\ val[i + 1] = "{"
    THEN LET k == RunEnd(val, i + 2)
         IN  IF k <= Len(val) /\ val[k] = "}" THEN k + 1 ELSE 0
    ELSE 0

MatchEnd(val, i) ==
    IF i + 1 <= Len(val) /\ val[i] = "~" /\ val[i + 1] = "{"
    THEN LET k == RunEnd(val, i + 2)
         IN  IF k > i + 2 /\ k <= Len(val) /\ val[k] = "}" THEN k + 1 ELSE 0
    ELSE 0

(* variant: the scan resumes one character after the end of a match *)
RECURSIVE finditerSkip(_, _)
finditerSkip(val, pos) ==
    IF pos > Len(val) THEN << >>
    ELSE LET e == MatchEnd(val, pos)
         IN  IF e # 0
             THEN <<[start |-> pos, end |-> e]>> \o finditerSkip(val, e + 1)
             ELSE finditerSkip(val, pos + 1)

RECURSIVE finditer(_, _)
finditer(val, pos) ==
    IF pos > Len(val) THEN << >>
    ELSE LET e == MatchEnd(val, pos)
         IN  IF e # 0
             THEN <<[start |-> pos, end |-> e]>> \o finditer(val, e)
             ELSE finditer(val, pos + 1)

----------------------------------------------------------------------------
(* get_val: False when no frame has the key, else the stored value *)

PyFalse == [tag |-> "bool", s |-> << >>]
PyStr(s) == [tag |-> "str", s |-> s]

RECURSIVE get_val_from(_, _, _)
get_val_from(stk, key, i) ==
    IF i < 1 THEN PyFalse
    ELSE IF key \in DOMAIN stk[i] THEN PyStr(stk[i][key])
         ELSE get_val_from(stk, key, i - 1)

(* variant: the search runs from the outermost frame inwards *)
RECURSIVE get_val_up(_, _, _)
get_val_up(stk, key, i) ==
    IF i > Len(stk) THEN PyFalse
    ELSE IF key \in DOMAIN stk[i] THEN PyStr(stk[i][key])
         ELSE get_val_up(stk, key, i + 1)

get_val_outermost(stk, key) == get_val_up(stk, key, 1)

get_val(stk, key) == get_val_from(stk, key, Len(stk))

Truthy(s) == s.tag = "str" /\ s.s # << >>

IsBool(s) == s.tag = "bool"

----------------------------------------------------------------------------
(* expand_val *)

(* variant: the substituted value is scanned once more for tokens *)
RECURSIVE Rescan(_, _, _, _)
Rescan(stk, v, ms, last) ==
    IF ms = << >> THEN SubSeq(v, last, Len(v))
    ELSE LET m == Head(ms)
             s == get_val(stk, SubSeq(v, m.start + 2, m.end - 2))
         IN  SubSeq(v, last, m.start - 1)
               \o (IF Truthy(s) THEN s.s ELSE << >>)
               \o Rescan(stk, v, Tail(ms), m.end)

SubstitutedRescan(stk, s) == Rescan(stk, s.s, finditer(s.s, 1), 1)

(* newval += str(s) *)
Substituted(stk, s) == s.s

(* variant: only a truthy value counts as a change *)
ChangesTruthyOnly(s) == Truthy(s)

(* changed = True in the "if s" branch and in the "not isinstance(s, bool)" branch *)
Changes(s) == Truthy(s) \/ ~IsBool(s)

ExpandBody(stk, val, m, acc) ==
    LET var == SubSeq(val, m.start + 2, m.end - 2)
        s == get_val(stk, var)
        newval1 == acc.newval \o SubSeq(val, acc.last, m.start - 1)
    IN  [newval  |-> IF Truthy(s) THEN newval1 \o Substituted(stk, s) ELSE newval1,
         last    |-> m.end,
         changed |-> acc.changed \/ Changes(s),
         looked  |-> Append(acc.looked, var)]

RECURSIVE ExpandLoop(_, _, _, _)
ExpandLoop(stk, val, ms, acc) ==
    IF ms = << >> THEN acc
    ELSE ExpandLoop(stk, val, Tail(ms), ExpandBody(stk, val, Head(ms), acc))

expand_val(stk, val) ==
    LET acc == ExpandLoop(stk, val, finditer(val, 1),
                          [newval |-> << >>, last |-> 1, changed |-> FALSE,
                           looked |-> << >>])
    IN  [changed |-> acc.changed,
         newval  |-> acc.newval \o SubSeq(val, acc.last, Len(val)),
         looked  |-> acc.looked]

----------------------------------------------------------------------------
(* expand_key: the outcome and the stack it leaves *)

(* variant: the new value is stored in the outermost frame *)
expand_key_outermost(stk, key) ==
    IF Len(stk) = 0
    THEN [err |-> "IndexError", changed |-> FALSE, newval |-> << >>, stack |-> stk]
    ELSE IF key \notin DOMAIN stk[Len(stk)]
    THEN [err |-> "KeyError", changed |-> FALSE, newval |-> << >>, stack |-> stk]
    ELSE LET r == expand_val(stk, stk[Len(stk)][key])
         IN  [err |-> "none", changed |-> r.changed, newval |-> r.newval,
              stack |-> IF r.changed
                        THEN [stk EXCEPT ![1] = (key :> r.newval) @@ stk[1]]
                        ELSE stk]

(* variant: a key missing from the innermost frame is looked up with get_val *)
expand_key_fallback(stk, key) ==
    IF Len(stk) = 0
    THEN [err |-> "IndexError", changed |-> FALSE, newval |-> << >>, stack |-> stk]
    ELSE LET v == get_val(stk, key)
         IN  IF IsBool(v)
             THEN [err |-> "KeyError", changed |-> FALSE, newval |-> << >>,
                   stack |-> stk]
             ELSE LET r == expand_val(stk, v.s)
                  IN  [err |-> "none", changed |-> r.changed, newval |-> r.newval,
                       stack |-> IF r.changed
                                 THEN [stk EXCEPT ![Len(stk)] =
                                           (key :> r.newval) @@ stk[Len(stk)]]
                                 ELSE stk]

expand_key(stk, key) ==
    IF Len(stk) = 0
    THEN [err |-> "IndexError", changed |-> FALSE, newval |-> << >>, stack |-> stk]
    ELSE IF key \notin DOMAIN stk[Len(stk)]
    THEN [err |-> "KeyError", changed |-> FALSE, newval |-> << >>, stack |-> stk]
    ELSE LET r == expand_val(stk, stk[Len(stk)][key])
         IN  [err |-> "none", changed |-> r.changed, newval |-> r.newval,
              stack |-> IF r.changed
                        THEN [stk EXCEPT ![Len(stk)][key] = r.newval]
                        ELSE stk]

----------------------------------------------------------------------------
(* State machine *)

NoRet == [op |-> "init", arg |-> << >>, err |-> "none", changed |-> FALSE,
          newval |-> << >>, looked |-> << >>]

NoHeld == [valid |-> FALSE, arg |-> << >>, newval |-> << >>]

Init ==
    /\ stack = << EmptyDict >>
    /\ ret = NoRet
    /\ held = NoHeld

Push(d) ==
    /\ Len(stack) < MaxDepth
    /\ stack' = Append(stack, d)
    /\ ret' = [NoRet EXCEPT !.op = "push"]
    /\ held' = IF ret.op = "expand_val"
               THEN [valid |-> TRUE, arg |-> ret.arg, newval |-> ret.newval]
               ELSE NoHeld

Pop ==
    /\ IF Len(stack) = 0
       THEN /\ stack' = stack
            /\ ret' = [NoRet EXCEPT !.op = "pop", !.err = "IndexError"]
       ELSE /\ stack' = SubSeq(stack, 1, Len(stack) - 1)
            /\ ret' = [NoRet EXCEPT !.op = "pop"]
    /\ held' = NoHeld

ExpandVal(val) ==
    /\ LET r == expand_val(stack, val)
       IN  ret' = [op |-> "expand_val", arg |-> val, err |-> "none",
                   changed |-> r.changed, newval |-> r.newval,
                   looked |-> r.looked]
    /\ held' = NoHeld
    /\ UNCHANGED stack

ReExpand ==
    /\ held.valid
    /\ ExpandVal(held.newval)

ExpandKey(key) ==
    LET r == expand_key(stack, key)
    IN  /\ stack' = r.stack
        /\ ret' = [op |-> "expand_key", arg |-> key, err |-> r.err,
                   changed |-> r.changed, newval |-> r.newval,
                   looked |-> << >>]
        /\ held' = NoHeld

Next ==
    \/ \E d \in Frames : Push(d)
    \/ Pop
    \/ \E val \in Texts : ExpandVal(val)
    \/ ReExpand
    \/ \E key \in Ids : ExpandKey(key)

Spec == Init /\ [][Next]_vars

(* expand_val as a pure function of a text and a stack *)

ScanInit ==
    /\ stack \in ScanStacks
    /\ ret = NoRet
    /\ held = NoHeld

ScanNext ==
    /\ ret.op = "init"
    /\ \E val \in ScanTexts : ExpandVal(val)

SpecScan == ScanInit /\ [][ScanNext]_vars

----------------------------------------------------------------------------
(* Reference definitions used by the properties: tokens and resolution     *)
(* stated directly, without the scanning loop or the frame search loop.    *)

Top(stk) == stk[Len(stk)]

Outer(stk) == SubSeq(stk, 1, Len(stk) - 1)

TokenStarts(val) ==
    {i \in 1..(Len(val) - 1) : val[i] = "~" /\ val[i + 1] = "{"}

TokenSpans(val) ==
    {sp \in TokenStarts(val) \X (1..(Len(val) + 1)) :
        /\ sp[2] - sp[1] >= 4
        /\ val[sp[2] - 1] = "}"
        /\ \A k \in (sp[1] + 2)..(sp[2] - 2) : val[k] \notin {"~", "{", "}"}}

SpanId(val, sp) == SubSeq(val, sp[1] + 2, sp[2] - 2)

SpanText(val, sp) == SubSeq(val, sp[1], sp[2] - 1)

RECURSIVE ByStart(_)
ByStart(S) ==
    IF S = {} THEN << >>
    ELSE LET first == CHOOSE sp \in S : \A o \in S : sp[1] <= o[1]
         IN  <<first>> \o ByStart(S \ {first})

SortedSpans(val) == ByStart(TokenSpans(val))

Holders(stk, id) == {i \in 1..Len(stk) : id \in DOMAIN stk[i]}

Innermost(stk, id) ==
    CHOOSE i \in Holders(stk, id) : \A j \in Holders(stk, id) : j <= i

InnermostValue(stk, id) == stk[Innermost(stk, id)][id]

Resolve(stk, id) ==
    IF Holders(stk, id) = {} THEN "NotFound"
    ELSE IF InnermostValue(stk, id) = << >> THEN "FoundEmpty"
    ELSE "Found"

Lookup(stk, id) ==
    IF Holders(stk, id) = {} THEN PyFalse ELSE PyStr(InnermostValue(stk, id))

SpecReplacement(stk, val, sp) ==
    IF Resolve(stk, SpanId(val, sp)) = "NotFound" THEN SpanText(val, sp)
    ELSE InnermostValue(stk, SpanId(val, sp))

RECURSIVE SpecRebuild(_, _, _, _)
SpecRebuild(stk, val, spans, last) ==
    IF spans = << >> THEN SubSeq(val, last, Len(val))
    ELSE SubSeq(val, last, Head(spans)[1] - 1)
           \o SpecReplacement(stk, val, Head(spans))
           \o SpecRebuild(stk, val, Tail(spans), Head(spans)[2])

SpecExpand(stk, val) == SpecRebuild(stk, val, SortedSpans(val), 1)

NoneNotFound(stk, val) ==
    \A sp \in TokenSpans(val) : Resolve(stk, SpanId(val, sp)) # "NotFound"

Contains(v, str) ==
    \E i \in 1..(Len(str) - Len(v) + 1) : SubSeq(str, i, i + Len(v) - 1) = v

----------------------------------------------------------------------------
(* Properties *)

(* C1: every token whose identifier is in no frame appears in the result   *)
(* of expand_val as its literal text at its original position, the other   *)
(* tokens being replaced by their values: the result is SpecExpand.        *)
C1_NotFoundKeptLiteral ==
    ret.op = "expand_val" => ret.newval = SpecExpand(stack, ret.arg)

(* C2: expand_val returns changed = TRUE exactly when some token of the    *)
(* text resolves to Found or FoundEmpty; a token whose innermost holder    *)
(* stores the empty string is deleted from the result and sets changed.    *)
C2_ChangedIffResolved ==
    ret.op = "expand_val" =>
        LET sps == TokenSpans(ret.arg)
            res(sp) == Resolve(stack, SpanId(ret.arg, sp))
        IN  /\ ret.changed <=> (\E sp \in sps : res(sp) # "NotFound")
            /\ (/\ \E sp \in sps : res(sp) = "FoundEmpty"
                /\ NoneNotFound(stack, ret.arg))
               => ret.newval = SpecExpand(stack, ret.arg)

C2_Witness ==
    /\ ret.op = "expand_val"
    /\ ret.arg = <<"x">> \o Tok(a) \o <<"x">>
    /\ Resolve(stack, a) = "FoundEmpty"
    /\ ret.changed
    /\ ret.newval = <<"x", "x">>

C4_NeverEmpty == Len(stack) >= 1

(* C5: expand_key(key) with key in the innermost frame returns the changed *)
(* flag of expand_val on the stored value; the stored value becomes the    *)
(* result when changed and stays otherwise; the other keys, the outer      *)
(* frames and the depth are unchanged.                                     *)
C5_KeyEffect ==
    [][\A key \in Ids :
        (/\ ret'.op = "expand_key" /\ ret'.arg = key
         /\ Len(stack) >= 1 /\ key \in DOMAIN Top(stack))
        => LET r == expand_val(stack, Top(stack)[key])
           IN  /\ ret'.err = "none"
               /\ ret'.changed = r.changed
               /\ Len(stack') = Len(stack)
               /\ Outer(stack') = Outer(stack)
               /\ DOMAIN Top(stack') = DOMAIN Top(stack)
               /\ \A k \in DOMAIN Top(stack) \ {key} :
                      Top(stack')[k] = Top(stack)[k]
               /\ Top(stack')[key] =
                      IF r.changed THEN r.newval ELSE Top(stack)[key]]_vars

C5_Witness ==
    /\ ret.op = "expand_key" /\ ret.arg = a /\ ret.err = "none"
    /\ ret.changed
    /\ Len(stack) = 2
    /\ a \in DOMAIN stack[1] /\ stack[1][a] = Tok(b)
    /\ Top(stack) = (a :> <<"1">> @@ b :> <<"1">>)

(* C6: expand_key(key) with key absent from the innermost frame fails with *)
(* the key error, also when an outer frame defines key, and leaves every   *)
(* frame unchanged.                                                        *)
C6_MissingKeyFails ==
    [][\A key \in Ids :
        (/\ ret'.op = "expand_key" /\ ret'.arg = key
         /\ Len(stack) >= 1 /\ key \notin DOMAIN Top(stack))
        => ret'.err = "KeyError" /\ stack' = stack]_vars

C6_Witness ==
    /\ ret.op = "expand_key" /\ ret.err = "KeyError"
    /\ Len(stack) = 2
    /\ ret.arg \in DOMAIN stack[1]
    /\ ret.arg \notin DOMAIN stack[2]

(* C7: expand_val is single-pass: it looks up one identifier per token of  *)
(* the text it was given, and a value substituted for a token is copied    *)
(* verbatim, never re-scanned, also when it contains a token itself.       *)
C7_SinglePass ==
    ret.op = "expand_val" =>
        /\ Len(ret.looked) = Cardinality(TokenSpans(ret.arg))
        /\ (/\ \E sp \in TokenSpans(ret.arg) :
                   Resolve(stack, SpanId(ret.arg, sp)) = "Found"
            /\ NoneNotFound(stack, ret.arg))
           => ret.newval = SpecExpand(stack, ret.arg)

C7_Witness ==
    /\ ret.op = "expand_val" /\ ret.arg = Tok(a)
    /\ stack = << a :> Tok(b) @@ b :> <<"X">> >>
    /\ ret.changed /\ ret.newval = Tok(b)

(* C8: for a string with no valid token, malformed markers included,       *)
(* expand_val returns (False, the string itself) and raises nothing.       *)
C8_NoTokenIdentity ==
    (ret.op = "expand_val" /\ TokenSpans(ret.arg) = {})
    => ret.err = "none" /\ ~ret.changed /\ ret.newval = ret.arg

C8_Witness ==
    /\ ret.op = "expand_val"
    /\ ret.arg = <<"~", "{", "a", "{", "x", "}">>
    /\ ~ret.changed
    /\ ret.newval = ret.arg
    /\ Holders(stack, a) # {}

(* C9: when expand_val(text) ran while id was in no frame and returned r,  *)
(* and a frame defining id with a non-empty value v is then pushed, the    *)
(* next expand_val(r) returns changed = TRUE and a string that holds v.    *)
C9_RetryAfterPush ==
    [][\A id \in Ids :
        (/\ held.valid /\ ret.op = "push"
         /\ \E sp \in TokenSpans(held.arg) : SpanId(held.arg, sp) = id
         /\ Resolve(Outer(stack), id) = "NotFound"
         /\ Resolve(stack, id) = "Found"
         /\ ret'.op = "expand_val" /\ ret'.arg = held.newval)
        => ret'.changed /\ Contains(InnermostValue(stack, id), ret'.newval)]_vars

(* C10: tokens are matched left to right without overlap: expand_val looks *)
(* up the identifier of each token once, in source order, and the result   *)
(* is the text between the tokens and one replacement per token, in source *)
(* order (a token in no frame contributes its literal text or nothing).    *)
Replacements(stk, val, sp) ==
    IF Resolve(stk, SpanId(val, sp)) = "NotFound"
    THEN {SpanText(val, sp), << >>}
    ELSE {InnermostValue(stk, SpanId(val, sp))}

RECURSIVE Rebuilds(_, _, _, _)
Rebuilds(stk, val, spans, last) ==
    IF spans = << >> THEN {SubSeq(val, last, Len(val))}
    ELSE {SubSeq(val, last, Head(spans)[1] - 1) \o r \o rest :
            r \in Replacements(stk, val, Head(spans)),
            rest \in Rebuilds(stk, val, Tail(spans), Head(spans)[2])}

C10_ScanOrder ==
    ret.op = "expand_val" =>
        LET spans == SortedSpans(ret.arg)
        IN  /\ ret.looked = [i \in 1..Len(spans) |-> SpanId(ret.arg, spans[i])]
            /\ ret.newval \in Rebuilds(stack, ret.arg, spans, 1)

C10_Witness ==
    /\ ret.op = "expand_val"
    /\ ret.arg = Tok(a) \o Tok(b)
    /\ ret.looked = <<a, b>>
    /\ Resolve(stack, a) = "Found" /\ Resolve(stack, b) = "Found"
    /\ ret.newval = InnermostValue(stack, a) \o InnermostValue(stack, b)

====
